---- MODULE Spec2Model ----
(***************************************************************************)
(* PAXG arbitrage monitor (src/paxg_monitor.py).                           *)
(*                                                                         *)
(* One sampling cycle issues seven market-data requests concurrently,      *)
(* joins them (asyncio.gather with return_exceptions=True), turns the      *)
(* bundle into six records and appends each to its own JSONL file.         *)
(* run_once performs one cycle, run_forever repeats cycles on a cadence.   *)
(*                                                                         *)
(* Encoding of Python values.  TLC compares only values of one shape, so   *)
(*   - a dict is a record with a fixed field list plus the field           *)
(*     `present`, the set of keys the dict really holds (a key that is     *)
(*     not present carries a filler that no operator reads);               *)
(*   - a list is a sequence;                                               *)
(*   - an entry of the bundle is [none |-> BOOLEAN, val |-> payload]:      *)
(*     none = TRUE is Python's None;                                       *)
(*   - a JSON scalar whose type the code does not fix (the funding rate) is  *)
(*     [json |-> "string" | "null", text |-> its text];                    *)
(*   - a Decimal is an exact fraction [n |-> Int, d |-> Nat \ {0}] in      *)
(*     lowest terms; float(...) of it is kept as that fraction;            *)
(*   - time.time() is `now`, in whole seconds.                             *)
(***************************************************************************)
EXTENDS Integers, Sequences, FiniteSets, TLC

VARIABLES
    mode,        \* what runs: "once" (main --once -> run_once), "forever"
                 \* (run_forever), or one function on its own
                 \* ("fetch_all_data", "calculate_orderbook_spread")
    pc,          \* position of the single thread of control
    now,         \* time.time(), seconds
    cycle,       \* number of the cycle in progress (0 before the first)
    fetch,       \* per operation: state of its awaitable and what it produced
    raw_data,    \* the bundle returned by fetch_all_data
    timestamp,   \* process_and_write's local `timestamp` (ms)
    start_time,  \* run_forever's local `start_time`
    store,       \* the six JSONL files, each a sequence of appended lines
    raised_in,   \* series whose append raised in this cycle ("" if none)
    faults,      \* number of injected failures so far (bounds run_forever)
    log,         \* how every finished cycle ended and paused
    order,       \* operations in the order their requests ended
    calc         \* locals of a call of calculate_orderbook_spread

vars == <<mode, pc, now, cycle, fetch, raw_data, timestamp, start_time,
          store, raised_in, faults, log, order, calc>>

----------------------------------------------------------------------------
(* Bounds of the model and constants of the program *)

MaxCycles == 2

MaxFaults == 1

MaxDuration == 4

interval_seconds == 2

BackoffSeconds == 5

target_oz == 2

MsPerSecond == 1000

MaxLevels == 2

MaxQty == 2

MaxTarget == 3

\* Seconds a gather may take: shorter and longer than interval_seconds.
Durations == {1, MaxDuration}

\* The `timestamp` field the provider puts in a basis / open-interest element:
\* the start of the 5m period the element belongs to (period "5m", limit 1).
\* A run of MaxCycles cycles a few seconds apart stays inside one period.
ProviderTimestamps == {0}

symbol == "PAXGUSDT"

pair == "PAXGUSDT"

----------------------------------------------------------------------------
(* Python helpers *)

\* dict.get(key, default)
Get(d, key, default) == IF key \in d.present THEN d[key] ELSE default

Min(a, b) == IF a <= b THEN a ELSE b

Max(a, b) == IF a >= b THEN a ELSE b

Abs(a) == IF a < 0 THEN -a ELSE a

RECURSIVE GCD(_, _)
GCD(a, b) == IF b = 0 THEN a ELSE GCD(b, a % b)

\* Decimal values as fractions in lowest terms.
Frac(n, d) ==
    LET g == GCD(Abs(n), Abs(d))
        s == IF d < 0 THEN -1 ELSE 1
    IN  [n |-> (s * n) \div g, d |-> (s * d) \div g]

DecimalOf(i) == [n |-> i, d |-> 1]

FracAdd(a, b) == Frac(a.n * b.d + b.n * a.d, a.d * b.d)

FracSub(a, b) == Frac(a.n * b.d - b.n * a.d, a.d * b.d)

FracHalf(a) == Frac(a.n, a.d * 2)

\* bool(Decimal): non-zero
FracTruthy(a) == a.n # 0

\* JSON scalars: a string, and null (Python's None)
JStr(s) == [json |-> "string", text |-> s]

JNull == [json |-> "null", text |-> "null"]

\* bool(value): None and the empty string are falsy
JsonTruthy(v) == v.json = "string" /\ v.text # ""

\* float(str) on the closing prices the provider's candles carry.
FloatOfStr(s) ==
    CASE s = "2000" -> 2000
      [] s = "2001" -> 2001

----------------------------------------------------------------------------
(* Payloads the provider can return, one shape per operation *)

TaskKeys ==
    <<"ticker", "orderbook", "kline", "basis", "open_interest_hist",
      "funding_rate", "premium_index">>

Ops == {TaskKeys[i] : i \in 1..Len(TaskKeys)}

Series ==
    <<"price", "basisRate", "openinterest", "fundingRate", "volume_24h",
      "spread">>

SeriesNames == {Series[i] : i \in 1..Len(Series)}

TickerEmpty ==
    [present |-> {}, volume |-> "", quoteVolume |-> "", lastPrice |-> ""]

TickerFull ==
    [present |-> {"volume", "quoteVolume", "lastPrice"},
     volume |-> "1200.5", quoteVolume |-> "2400100.0", lastPrice |-> "2000.1"]

BookEmpty == [present |-> {}, bids |-> <<>>, asks |-> <<>>]

\* levels are [price, qty] pairs, best price first
BookFull ==
    [present |-> {"bids", "asks"},
     bids |-> << <<100, 1>>, <<99, 3>> >>,
     asks |-> << <<101, 2>>, <<102, 5>> >>]

\* [open time, open, high, low, close, volume, ...]
Candle == <<"1700000000000", "1999", "2002", "1998", "2000", "35.2">>

ShortCandle == <<"1700000000000", "1999">>

BasisNoFields ==
    [present |-> {}, indexPrice |-> "", contractType |-> "", basisRate |-> "",
     futuresPrice |-> "", annualizedBasisRate |-> "", basis |-> "",
     timestamp |-> 0]

BasisElem(ts) ==
    [present |-> {"indexPrice", "contractType", "basisRate", "futuresPrice",
                  "annualizedBasisRate", "basis", "timestamp"},
     indexPrice |-> "2000.5", contractType |-> "PERPETUAL",
     basisRate |-> "-0.0002", futuresPrice |-> "2000.1",
     annualizedBasisRate |-> "", basis |-> "-0.4", timestamp |-> ts]

\* an element that lacks its timestamp field
BasisElemNoTs ==
    [BasisElem(0) EXCEPT !.present = @ \ {"timestamp"}, !.timestamp = 0]

OiElem(ts) ==
    [present |-> {"sumOpenInterest", "sumOpenInterestValue", "timestamp"},
     sumOpenInterest |-> "5400.2", sumOpenInterestValue |-> "10800400.0",
     timestamp |-> ts]

OiElemNoTs == [OiElem(0) EXCEPT !.present = @ \ {"timestamp"}, !.timestamp = 0]

FundingElem == [present |-> {"fundingRate"}, fundingRate |-> JStr("0.0002")]

\* a history entry that lacks its fundingRate field
FundingElemNoRate == [present |-> {}, fundingRate |-> JStr("")]

PremiumEmpty == [present |-> {}, lastFundingRate |-> JStr("")]

PremiumBlank == [present |-> {"lastFundingRate"}, lastFundingRate |-> JStr("")]

\* "lastFundingRate": null
PremiumNull == [present |-> {"lastFundingRate"}, lastFundingRate |-> JNull]

PremiumFull ==
    [present |-> {"lastFundingRate"}, lastFundingRate |-> JStr("0.0001")]

\* The empty payload of each operation's type ({} or []).
EmptyPayload(op) ==
    CASE op = "ticker" -> TickerEmpty
      [] op = "orderbook" -> BookEmpty
      [] op = "premium_index" -> PremiumEmpty
      [] OTHER -> <<>>

\* What a successful request of `op` may deliver.
Payloads(op) ==
    CASE op = "ticker" -> {TickerEmpty, TickerFull}
      [] op = "orderbook" -> {BookEmpty, BookFull}
      [] op = "kline" -> {<<>>, <<Candle>>, <<ShortCandle>>}
      [] op = "basis" ->
            {<<>>, <<BasisElemNoTs>>} \cup
            {<<BasisElem(ts)>> : ts \in ProviderTimestamps}
      [] op = "open_interest_hist" ->
            {<<>>, <<OiElemNoTs>>} \cup
            {<<OiElem(ts)>> : ts \in ProviderTimestamps}
      [] op = "funding_rate" -> {<<>>, <<FundingElem>>, <<FundingElemNoRate>>}
      [] op = "premium_index" ->
            {PremiumEmpty, PremiumBlank, PremiumNull, PremiumFull}

\* The provider's regular answer: every field filled.
NominalPayloads(op) ==
    CASE op = "ticker" -> {TickerFull}
      [] op = "orderbook" -> {BookFull}
      [] op = "kline" -> {<<Candle>>}
      [] op = "basis" -> {<<BasisElem(ts)>> : ts \in ProviderTimestamps}
      [] op = "open_interest_hist" ->
            {<<OiElem(ts)>> : ts \in ProviderTimestamps}
      [] op = "funding_rate" -> {<<FundingElem>>}
      [] op = "premium_index" -> {PremiumFull}

\* bool(payload): a dict with no key and a list with no element are falsy
Truthy(op, payload) ==
    IF op \in {"ticker", "orderbook", "premium_index"}
    THEN payload.present # {}
    ELSE Len(payload) > 0

\* raw_data.get(key) or default
GetOr(raw, key, default) ==
    IF raw[key].none \/ ~Truthy(key, raw[key].val) THEN default
    ELSE raw[key].val

----------------------------------------------------------------------------
(* calculate_orderbook_spread *)

\* remaining = Decimal(str(target_quantity)) - <side>_qty_sum
Remaining(target_quantity, qty_sum) == target_quantity - qty_sum

\* if remaining <= 0: break
LoopBreaks(remaining) == remaining <= 0

\* a fill that takes the whole level, whatever remains to be filled
FillQty_whole_level(qty, remaining) == qty

\* fill_qty = min(qty, remaining)
FillQty(qty, remaining) == Min(qty, remaining)

\* One side's loop: state <<qty_sum, value_sum>> after the levels from i on.
RECURSIVE WalkLevels(_, _, _, _, _)
WalkLevels(levels, i, target_quantity, qty_sum, value_sum) ==
    IF i > Len(levels) THEN <<qty_sum, value_sum>>
    ELSE LET price == levels[i][1]
             qty == levels[i][2]
             remaining == Remaining(target_quantity, qty_sum)
         IN  IF LoopBreaks(remaining) THEN <<qty_sum, value_sum>>
             ELSE LET fill_qty == FillQty(qty, remaining)
                  IN  WalkLevels(levels, i + 1, target_quantity,
                                 qty_sum + fill_qty,
                                 value_sum + fill_qty * price)

\* an average over the monitor's target size instead of the filled quantity
Average_per_target(value_sum, qty_sum) ==
    IF qty_sum > 0 THEN Frac(value_sum, target_oz) ELSE DecimalOf(0)

\* if <side>_qty_sum > 0: <side>_avg_price = <side>_value_sum / <side>_qty_sum
Average(value_sum, qty_sum) ==
    IF qty_sum > 0 THEN Frac(value_sum, qty_sum) ELSE DecimalOf(0)

\* the price of the best level, with no walk through the depth
AvgPrice_top_of_book(levels, target_quantity) ==
    IF Len(levels) > 0 /\ target_quantity > 0
    THEN DecimalOf(levels[1][1]) ELSE DecimalOf(0)

\* bid_avg_price / ask_avg_price
AvgPrice(levels, target_quantity) ==
    LET sums == WalkLevels(levels, 1, target_quantity, 0, 0)
    IN  Average(sums[2], sums[1])

\* spread and mid price computed without the test that both sides are priced
SpreadAndMid_unguarded(bid_avg_price, ask_avg_price) ==
    [bid_price |-> bid_avg_price,
     ask_price |-> ask_avg_price,
     spread |-> FracSub(ask_avg_price, bid_avg_price),
     mid_price |-> FracHalf(FracAdd(ask_avg_price, bid_avg_price))]

\* spread = ... if ask_avg_price and bid_avg_price else Decimal("0"), the same
\* for mid_price, and the dict returned
SpreadAndMid(bid_avg_price, ask_avg_price) ==
    LET both == FracTruthy(ask_avg_price) /\ FracTruthy(bid_avg_price)
    IN  [bid_price |-> bid_avg_price,
         ask_price |-> ask_avg_price,
         spread |-> IF both THEN FracSub(ask_avg_price, bid_avg_price)
                    ELSE DecimalOf(0),
         mid_price |-> IF both
                       THEN FracHalf(FracAdd(ask_avg_price, bid_avg_price))
                       ELSE DecimalOf(0)]

calculate_orderbook_spread(orderbook, target_quantity) ==
    LET bids == Get(orderbook, "bids", <<>>)
        asks == Get(orderbook, "asks", <<>>)
        bid_avg_price == AvgPrice(bids, target_quantity)
        ask_avg_price == AvgPrice(asks, target_quantity)
    IN  SpreadAndMid(bid_avg_price, ask_avg_price)

----------------------------------------------------------------------------
(* Record builders: the `data` dict each _write_* method hands to
   _append_jsonl *)

\* _write_price that records no close when the order book is missing.
_write_price_needs_book(raw, ts) ==
    LET kline == GetOr(raw, "kline", << <<>> >>)
        close_price == IF ~raw["orderbook"].none
                          /\ Len(kline) > 0 /\ Len(kline[1]) > 4
                       THEN FloatOfStr(kline[1][5]) ELSE 0
    IN  [timestamp |-> ts, price |-> close_price, mid_price |-> DecimalOf(0)]

_write_price(raw, ts) ==
    LET kline == GetOr(raw, "kline", << <<>> >>)
        orderbook == GetOr(raw, "orderbook", BookEmpty)
        close_price == IF Len(kline) > 0 /\ Len(kline[1]) > 4
                       THEN FloatOfStr(kline[1][5]) ELSE 0
        spread_info == calculate_orderbook_spread(orderbook, target_oz)
    IN  [timestamp |-> ts, price |-> close_price,
         mid_price |-> spread_info.mid_price]

\* _write_basis_rate that stamps every record with the cycle's timestamp.
_write_basis_rate_cycle_ts(raw, ts) ==
    LET basis_list == GetOr(raw, "basis", <<>>)
        basis == IF Len(basis_list) > 0 THEN basis_list[1] ELSE BasisNoFields
    IN  [indexPrice |-> Get(basis, "indexPrice", ""),
         contractType |-> Get(basis, "contractType", "PERPETUAL"),
         basisRate |-> Get(basis, "basisRate", ""),
         futuresPrice |-> Get(basis, "futuresPrice", ""),
         annualizedBasisRate |-> Get(basis, "annualizedBasisRate", ""),
         basis |-> Get(basis, "basis", ""),
         pair |-> pair,
         timestamp |-> ts]

_write_basis_rate(raw, ts) ==
    LET basis_list == GetOr(raw, "basis", <<>>)
    IN  IF Len(basis_list) > 0
        THEN LET basis == basis_list[1]
             IN  [indexPrice |-> Get(basis, "indexPrice", ""),
                  contractType |-> Get(basis, "contractType", "PERPETUAL"),
                  basisRate |-> Get(basis, "basisRate", ""),
                  futuresPrice |-> Get(basis, "futuresPrice", ""),
                  annualizedBasisRate |-> Get(basis, "annualizedBasisRate", ""),
                  basis |-> Get(basis, "basis", ""),
                  pair |-> pair,
                  timestamp |-> Get(basis, "timestamp", ts)]
        ELSE [indexPrice |-> "", contractType |-> "PERPETUAL",
              basisRate |-> "", futuresPrice |-> "",
              annualizedBasisRate |-> "", basis |-> "", pair |-> pair,
              timestamp |-> ts]

\* _write_open_interest that takes the element only when it is complete.
_write_open_interest_all_or_blank(raw, ts) ==
    LET oi_list == GetOr(raw, "open_interest_hist", <<>>)
        complete == Len(oi_list) > 0
                    /\ oi_list[1].present = OiElem(0).present
    IN  IF complete
        THEN [symbol |-> symbol,
              sumOpenInterest |-> oi_list[1].sumOpenInterest,
              sumOpenInterestValue |-> oi_list[1].sumOpenInterestValue,
              timestamp |-> oi_list[1].timestamp]
        ELSE [symbol |-> symbol, sumOpenInterest |-> "",
              sumOpenInterestValue |-> "", timestamp |-> ts]

_write_open_interest(raw, ts) ==
    LET oi_list == GetOr(raw, "open_interest_hist", <<>>)
    IN  IF Len(oi_list) > 0
        THEN LET oi == oi_list[1]
             IN  [symbol |-> symbol,
                  sumOpenInterest |-> Get(oi, "sumOpenInterest", ""),
                  sumOpenInterestValue |-> Get(oi, "sumOpenInterestValue", ""),
                  timestamp |-> Get(oi, "timestamp", ts)]
        ELSE [symbol |-> symbol, sumOpenInterest |-> "",
              sumOpenInterestValue |-> "", timestamp |-> ts]

\* _write_funding_rate that falls back to the history only when the premium
\* index's value equals the empty string.
_write_funding_rate_on_empty_string(raw, ts) ==
    LET funding_list == GetOr(raw, "funding_rate", <<>>)
        premium == GetOr(raw, "premium_index", PremiumEmpty)
        first_rate == Get(premium, "lastFundingRate", JStr(""))
        funding_rate == IF first_rate = JStr("") /\ Len(funding_list) > 0
                        THEN Get(funding_list[1], "fundingRate", JStr(""))
                        ELSE first_rate
    IN  [symbol |-> symbol, fundingRate |-> funding_rate, timestamp |-> ts]

_write_funding_rate(raw, ts) ==
    LET funding_list == GetOr(raw, "funding_rate", <<>>)
        premium == GetOr(raw, "premium_index", PremiumEmpty)
        first_rate == Get(premium, "lastFundingRate", JStr(""))
        funding_rate == IF ~JsonTruthy(first_rate) /\ Len(funding_list) > 0
                        THEN Get(funding_list[1], "fundingRate", JStr(""))
                        ELSE first_rate
    IN  [symbol |-> symbol, fundingRate |-> funding_rate, timestamp |-> ts]

\* _write_volume that gives up on the ticker when any entry of the bundle
\* is None.
_write_volume_all_or_nothing(raw, ts) ==
    LET ticker == IF \E k \in DOMAIN raw : raw[k].none THEN TickerEmpty
                  ELSE GetOr(raw, "ticker", TickerEmpty)
    IN  [symbol |-> symbol,
         volume |-> Get(ticker, "volume", ""),
         quoteVolume |-> Get(ticker, "quoteVolume", ""),
         timestamp |-> ts]

_write_volume(raw, ts) ==
    LET ticker == GetOr(raw, "ticker", TickerEmpty)
    IN  [symbol |-> symbol,
         volume |-> Get(ticker, "volume", ""),
         quoteVolume |-> Get(ticker, "quoteVolume", ""),
         timestamp |-> ts]

\* _write_spread that marks a failed order-book request with spread -1.
_write_spread_flags_failure(raw, ts) ==
    LET orderbook == GetOr(raw, "orderbook", BookEmpty)
        spread_info == calculate_orderbook_spread(orderbook, target_oz)
    IN  [symbol |-> symbol,
         spread |-> IF raw["orderbook"].none THEN DecimalOf(-1)
                    ELSE spread_info.spread,
         timestamp |-> ts]

_write_spread(raw, ts) ==
    LET orderbook == GetOr(raw, "orderbook", BookEmpty)
        spread_info == calculate_orderbook_spread(orderbook, target_oz)
    IN  [symbol |-> symbol, spread |-> spread_info.spread, timestamp |-> ts]

\* The record of series s, as process_and_write dispatches.
RecordOf(s, raw, ts) ==
    CASE s = "price" -> _write_price(raw, ts)
      [] s = "basisRate" -> _write_basis_rate(raw, ts)
      [] s = "openinterest" -> _write_open_interest(raw, ts)
      [] s = "fundingRate" -> _write_funding_rate(raw, ts)
      [] s = "volume_24h" -> _write_volume(raw, ts)
      [] s = "spread" -> _write_spread(raw, ts)

\* _append_jsonl that opens the file with "w": earlier lines are lost.
_append_jsonl_truncating(file, line) == <<line>>

\* _append_jsonl that puts the new line first.
_append_jsonl_prepending(file, line) == <<line>> \o file

\* open(filepath, "a") ... f.write(line): the file grows by one line.
_append_jsonl(file, line) == Append(file, line)

----------------------------------------------------------------------------
(* fetch_all_data *)

\* An awaitable of `tasks`: the operation it requests, its state, and the
\* payload it returned.
Idle(op) == [op |-> op, st |-> "idle", val |-> EmptyPayload(op)]

Pending(op) == [op |-> op, st |-> "pending", val |-> EmptyPayload(op)]

Returned(op, payload) == [op |-> op, st |-> "returned", val |-> payload]

\* the awaitable ended with an exception (network error, bad status, bad JSON)
Raised(op) == [op |-> op, st |-> "raised", val |-> EmptyPayload(op)]

NoneEntry(op) == [none |-> TRUE, val |-> EmptyPayload(op)]

\* a gather whose list is in the order the awaitables ended (as_completed)
gather_as_completed(f) == [i \in 1..Len(TaskKeys) |-> f[order[i]]]

\* asyncio.gather(*tasks.values(), return_exceptions=True): a list in the
\* order of the awaitables passed in.
gather(f) == [i \in 1..Len(TaskKeys) |-> f[TaskKeys[i]]]

\* gather that returns at the first awaitable that ends (FIRST_COMPLETED).
GatherDone_first(f) == \E op \in Ops : f[op].st \in {"returned", "raised"}

\* gather returns once every awaitable has ended.
GatherDone(f) == \A op \in Ops : f[op].st \in {"returned", "raised"}

\* ResultEntry without the isinstance test: whatever gather produced is stored.
ResultEntry_unchecked(key, result) == [none |-> FALSE, val |-> result.val]

\* one step of `for key, result in zip(tasks.keys(), gathered)`
ResultEntry(key, result) ==
    IF result.st = "raised" THEN NoneEntry(key)
    ELSE [none |-> FALSE, val |-> result.val]

KeyIndex(key) == CHOOSE i \in 1..Len(TaskKeys) : TaskKeys[i] = key

fetch_all_data(f) ==
    LET gathered == gather(f)
    IN  [key \in Ops |-> ResultEntry(key, gathered[KeyIndex(key)])]

----------------------------------------------------------------------------
(* Order books and target sizes calculate_orderbook_spread is explored on *)

BestBid == 100

BestAsk == 101

\* prices of the MaxLevels best levels of each side, one tick apart
BidPrices == {BestBid - k : k \in 0..(MaxLevels - 1)}

AskPrices == {BestAsk + k : k \in 0..(MaxLevels - 1)}

Quantities == 0..MaxQty

\* A side as the provider sends it: at most MaxLevels [price, qty] levels,
\* best price first (bids descending, asks ascending), one level per price.
BidSides ==
    UNION {{side \in [1..n -> BidPrices \X Quantities] :
               \A k \in 1..(n - 1) : side[k][1] > side[k + 1][1]} :
           n \in 0..MaxLevels}

AskSides ==
    UNION {{side \in [1..n -> AskPrices \X Quantities] :
               \A k \in 1..(n - 1) : side[k][1] < side[k + 1][1]} :
           n \in 0..MaxLevels}

Books ==
    {[present |-> {"bids", "asks"}, bids |-> b, asks |-> a] :
        b \in BidSides, a \in AskSides} \cup {BookEmpty, BookFull}

\* target_quantity: negative, zero, below and beyond the depth of a side
Targets == (-1)..MaxTarget

Sides == {"bids", "asks"}

NoResult ==
    [bid_price |-> DecimalOf(0), ask_price |-> DecimalOf(0),
     spread |-> DecimalOf(0), mid_price |-> DecimalOf(0)]

\* The locals at entry: both sums and both average prices are Decimal("0").
\* fills lists the fill_qty of every iteration run so far.
CalcEntry(orderbook, target_quantity) ==
    [pc |-> "bids", orderbook |-> orderbook,
     target_quantity |-> target_quantity, i |-> 1,
     qty_sum |-> [side \in Sides |-> 0],
     value_sum |-> [side \in Sides |-> 0],
     avg_price |-> [side \in Sides |-> DecimalOf(0)],
     fills |-> [side \in Sides |-> <<>>],
     result |-> NoResult]

\* no call of calculate_orderbook_spread is being followed
CalcIdle == [CalcEntry(BookEmpty, 0) EXCEPT !.pc = "idle"]

----------------------------------------------------------------------------
(* The state machine *)

NoFiles == [s \in SeriesNames |-> <<>>]

\* A line left in each file by an earlier run of the program.
OldFiles ==
    [s \in SeriesNames |->
        <<[cycle |-> 0,
           data |-> RecordOf(s, [op \in Ops |-> NoneEntry(op)], 0)]>>]

InitCommon ==
    /\ now = 0
    /\ cycle = 0
    /\ fetch = [op \in Ops |-> Idle(op)]
    /\ raw_data = [op \in Ops |-> NoneEntry(op)]
    /\ timestamp = 0
    /\ start_time = 0
    /\ raised_in = ""
    /\ faults = 0
    /\ log = <<>>
    /\ order = <<>>

\* main with --once: PAXGMonitor(...) then run_once()
InitOnce ==
    /\ mode = "once"
    /\ pc = "run_once"
    /\ store = NoFiles
    /\ calc = CalcIdle
    /\ InitCommon

\* main without --once: PAXGMonitor(...) then run_forever(interval)
InitForever ==
    /\ mode = "forever"
    /\ pc = "loop_top"
    /\ store \in {NoFiles, OldFiles}
    /\ calc = CalcIdle
    /\ InitCommon

\* What the provider may answer in this run.  run_forever is explored with
\* the provider's regular answers and at most MaxFaults failures.
ProviderAnswers(op) ==
    IF mode = "once" THEN Payloads(op) ELSE NominalPayloads(op)

MayFail == mode # "forever" \/ faults < MaxFaults

GatherDurations == IF mode = "forever" THEN Durations ELSE {1}

\* tasks = {...}; gather(...) is awaited: all seven requests are in flight
IssueAll == [op \in Ops |-> Pending(op)]

\* run_once, up to the await inside fetch_all_data
RunOnceStart ==
    /\ pc = "run_once"
    /\ cycle' = cycle + 1
    /\ fetch' = IssueAll
    /\ pc' = "gather"
    /\ UNCHANGED <<mode, now, raw_data, timestamp, start_time, store,
                   raised_in, faults, log,
                   order, calc>>

\* an iteration that begins while the previous one is still writing
CanStartCycle_overlapping == pc \in {"loop_top", "basisRate"}

\* where the while loop of run_forever may begin an iteration
CanStartCycle == pc = "loop_top"

\* run_forever: `start_time = time.time()` up to the await inside
\* fetch_all_data
LoopTop ==
    /\ CanStartCycle
    /\ cycle < MaxCycles
    /\ cycle' = cycle + 1
    /\ start_time' = now
    /\ fetch' = IssueAll
    /\ raised_in' = ""
    /\ pc' = "gather"
    /\ UNCHANGED <<mode, now, raw_data, timestamp, store, faults, log,
                   order, calc>>

\* The order in which the requests end, kept when fetch_all_data is explored
\* on its own.
Completed(op) == IF mode = "fetch_all_data" THEN Append(order, op) ELSE order

\* one request completes with a payload
FetchReturns(op) ==
    /\ pc = "gather"
    /\ fetch[op].st = "pending"
    /\ \E payload \in ProviderAnswers(op) :
          fetch' = [fetch EXCEPT ![op] = Returned(op, payload)]
    /\ order' = Completed(op)
    /\ UNCHANGED <<mode, pc, now, cycle, raw_data, timestamp, start_time,
                   store, raised_in, faults, log,
                   calc>>

\* one request fails (raise_for_status, transport or decoding error)
FetchRaises(op) ==
    /\ pc = "gather"
    /\ fetch[op].st = "pending"
    /\ MayFail
    /\ fetch' = [fetch EXCEPT ![op] = Raised(op)]
    /\ faults' = faults + 1
    /\ order' = Completed(op)
    /\ UNCHANGED <<mode, pc, now, cycle, raw_data, timestamp, start_time,
                   store, raised_in, log,
                   calc>>

\* gather returns; the for loop builds `results`; fetch_all_data returns
FetchAllDataReturns ==
    /\ pc = "gather"
    /\ GatherDone(fetch)
    /\ \E d \in GatherDurations : now' = now + d
    /\ raw_data' = fetch_all_data(fetch)
    /\ pc' = "process_and_write"
    /\ UNCHANGED <<mode, cycle, fetch, timestamp, start_time, store,
                   raised_in, faults, log,
                   order, calc>>

\* process_and_write: timestamp = int(time.time() * 1000)
ProcessAndWrite ==
    /\ pc = "process_and_write"
    /\ timestamp' = now * MsPerSecond
    /\ pc' = "price"
    /\ UNCHANGED <<mode, now, cycle, fetch, raw_data, start_time, store,
                   raised_in, faults, log,
                   order, calc>>

\* where control goes when process_and_write returns
AfterWrites == IF mode = "once" THEN "returned" ELSE "summary"

NextStep(s) ==
    CASE s = "price" -> "basisRate"
      [] s = "basisRate" -> "openinterest"
      [] s = "openinterest" -> "fundingRate"
      [] s = "fundingRate" -> "volume_24h"
      [] s = "volume_24h" -> "spread"
      [] s = "spread" -> AfterWrites

\* AfterRaise without the try/except of run_forever.
AfterRaise_uncaught(s) == "crashed"

\* AfterRaise with the OSError caught around the one record.
AfterRaise_caught(s) == NextStep(s)

\* Where control goes when _append_jsonl raises while writing series s:
\* out of _write_<s> and process_and_write, then out of run_once, or to the
\* except clause of run_forever.
AfterRaise(s) == IF mode = "once" THEN "crashed" ELSE "except"

\* self._write_<s>(raw_data, timestamp) returns: the line is in the file
WriteOk(s) ==
    /\ pc = s
    /\ store' = [store EXCEPT ![s] =
                    _append_jsonl(@, [cycle |-> cycle,
                                      data |-> RecordOf(s, raw_data, timestamp)])]
    /\ pc' = NextStep(s)
    /\ UNCHANGED <<mode, now, cycle, fetch, raw_data, timestamp, start_time,
                   raised_in, faults, log,
                   order, calc>>

\* open()/write() raises OSError inside _append_jsonl: nothing catches it
\* in _write_<s> or process_and_write
WriteRaises(s) ==
    /\ pc = s
    /\ MayFail
    /\ raised_in' = s
    /\ faults' = faults + 1
    /\ pc' = AfterRaise(s)
    /\ UNCHANGED <<mode, now, cycle, fetch, raw_data, timestamp, start_time,
                   store, log,
                   order, calc>>

\* time.time() - start_time
Elapsed == now - start_time

\* a fixed idle gap after every cycle
SleepTime_fixed_gap(elapsed) == interval_seconds

\* sleep_time = max(0, interval_seconds - elapsed)
SleepTime(elapsed) == Max(0, interval_seconds - elapsed)

\* run_forever after process_and_write: summary printed, then
\* await asyncio.sleep(sleep_time)
Sleep ==
    /\ pc = "summary"
    /\ now' = now + SleepTime(Elapsed)
    /\ log' = Append(log, [cycle |-> cycle, outcome |-> "ok",
                           start |-> start_time, end |-> now,
                           pause |-> SleepTime(Elapsed)])
    /\ pc' = "loop_top"
    /\ UNCHANGED <<mode, cycle, fetch, raw_data, timestamp, start_time,
                   store, raised_in, faults,
                   order, calc>>

\* run_forever: except Exception -> print, await asyncio.sleep(5)
Backoff ==
    /\ pc = "except"
    /\ now' = now + BackoffSeconds
    /\ log' = Append(log, [cycle |-> cycle, outcome |-> "error",
                           start |-> start_time, end |-> now,
                           pause |-> BackoffSeconds])
    /\ pc' = "loop_top"
    /\ UNCHANGED <<mode, cycle, fetch, raw_data, timestamp, start_time,
                   store, raised_in, faults,
                   order, calc>>

Fetching == \E op \in Ops : FetchReturns(op) \/ FetchRaises(op)

Writing == \E s \in SeriesNames : WriteOk(s) \/ WriteRaises(s)

NextOnce ==
    \/ RunOnceStart
    \/ Fetching
    \/ FetchAllDataReturns
    \/ ProcessAndWrite
    \/ Writing

NextForever ==
    \/ LoopTop
    \/ Fetching
    \/ FetchAllDataReturns
    \/ ProcessAndWrite
    \/ Writing
    \/ Sleep
    \/ Backoff

\* python paxg_monitor.py --once
Spec == InitOnce /\ [][NextOnce]_vars

\* python paxg_monitor.py
SpecForever == InitForever /\ [][NextForever]_vars

----------------------------------------------------------------------------
(* fetch_all_data on its own, the order of completions recorded *)

\* run_once up to the return of fetch_all_data
InitFetch ==
    /\ mode = "fetch_all_data"
    /\ pc = "run_once"
    /\ store = NoFiles
    /\ calc = CalcIdle
    /\ InitCommon

NextFetch ==
    \/ RunOnceStart
    \/ Fetching
    \/ FetchAllDataReturns

\* raw_data = await self.fetch_all_data(api), any order of completions
SpecFetch == InitFetch /\ [][NextFetch]_vars

----------------------------------------------------------------------------
(* calculate_orderbook_spread on its own, one loop iteration at a time *)

InitPricer ==
    /\ mode = "calculate_orderbook_spread"
    /\ pc = "calculate_orderbook_spread"
    /\ store = NoFiles
    /\ \E orderbook \in Books, target_quantity \in Targets :
          calc = CalcEntry(orderbook, target_quantity)
    /\ InitCommon

\* bids = orderbook.get("bids", []) / asks = orderbook.get("asks", [])
LevelsOf(side) == Get(calc.orderbook, side, <<>>)

CalcRemaining(side) == Remaining(calc.target_quantity, calc.qty_sum[side])

\* one iteration of `for price, qty in <side>` that does not break
LevelFilled(side) ==
    /\ calc.pc = side
    /\ calc.i <= Len(LevelsOf(side))
    /\ ~LoopBreaks(CalcRemaining(side))
    /\ LET price == LevelsOf(side)[calc.i][1]
           qty == LevelsOf(side)[calc.i][2]
           fill_qty == FillQty(qty, CalcRemaining(side))
       IN  calc' = [calc EXCEPT !.i = @ + 1,
                                !.qty_sum[side] = @ + fill_qty,
                                !.value_sum[side] = @ + fill_qty * price,
                                !.fills[side] = Append(@, fill_qty)]
    /\ UNCHANGED <<mode, pc, now, cycle, fetch, raw_data, timestamp,
                   start_time, store, raised_in, faults, log, order>>

\* the loop over one side ends (levels exhausted, or break) and the side's
\* average price is set
SideDone(side) ==
    /\ calc.pc = side
    /\ \/ calc.i > Len(LevelsOf(side))
       \/ LoopBreaks(CalcRemaining(side))
    /\ calc' = [calc EXCEPT
                   !.avg_price[side] =
                       Average(calc.value_sum[side], calc.qty_sum[side]),
                   !.i = 1,
                   !.pc = IF side = "bids" THEN "asks" ELSE "spread"]
    /\ UNCHANGED <<mode, pc, now, cycle, fetch, raw_data, timestamp,
                   start_time, store, raised_in, faults, log, order>>

\* spread, mid_price and the return statement
CalcReturns ==
    /\ calc.pc = "spread"
    /\ calc' = [calc EXCEPT
                   !.result = SpreadAndMid(calc.avg_price["bids"],
                                           calc.avg_price["asks"]),
                   !.pc = "done"]
    /\ UNCHANGED <<mode, pc, now, cycle, fetch, raw_data, timestamp,
                   start_time, store, raised_in, faults, log, order>>

NextPricer ==
    \/ \E side \in Sides : LevelFilled(side) \/ SideDone(side)
    \/ CalcReturns

\* calculate_orderbook_spread(orderbook, target_quantity), any book and target
SpecPricer == InitPricer /\ [][NextPricer]_vars

----------------------------------------------------------------------------
(* Vocabulary of the properties *)

\* operations whose request failed in the cycle in progress
FailedOps == {op \in Ops : fetch[op].st = "raised"}

\* the bundle has been assembled for the cycle in progress
BundleReady == pc \notin {"run_once", "loop_top", "gather"}

\* lines of file s appended by cycle c
LinesOf(s, c) == SelectSeq(store[s], LAMBDA l : l.cycle = c)

\* position of series s in the order process_and_write writes them
SeriesIndex(s) == CHOOSE i \in 1..Len(Series) : Series[i] = s

\* the operations whose payload the record of a series is built from
SourcesOf(s) ==
    CASE s = "price" -> {"kline", "orderbook"}
      [] s = "basisRate" -> {"basis"}
      [] s = "openinterest" -> {"open_interest_hist"}
      [] s = "fundingRate" -> {"premium_index", "funding_rate"}
      [] s = "volume_24h" -> {"ticker"}
      [] s = "spread" -> {"orderbook"}

\* the bundle of the same cycle had operation op succeeded with payload p
\* and every other operation ended as it did
BundleWith(op, p) ==
    [k \in Ops |-> IF k = op THEN [none |-> FALSE, val |-> p] ELSE raw_data[k]]

----------------------------------------------------------------------------
(* C1: fetch_all_data never raises and, whichever subset of the seven
   operations fails, returns a bundle with exactly one entry per operation:
   the payload of each operation that succeeded, None for each that failed;
   one operation's failure leaves the other entries as their own requests
   produced them. *)
C1_BundlePerOperation ==
    /\ pc = "crashed" => raised_in \in SeriesNames
    /\ BundleReady =>
          /\ DOMAIN raw_data = Ops
          /\ \A op \in Ops :
                /\ fetch[op].st = "raised" =>
                      raw_data[op] = NoneEntry(op)
                /\ fetch[op].st = "returned" =>
                      raw_data[op] = [none |-> FALSE, val |-> fetch[op].val]

\* three operations failed, four succeeded, and the bundle is back in run_once
C1_Witness ==
    /\ pc = "process_and_write"
    /\ FailedOps = {"ticker", "basis", "premium_index"}
    /\ raw_data["ticker"].none /\ raw_data["basis"].none
    /\ raw_data["orderbook"] = [none |-> FALSE, val |-> BookFull]
    /\ raw_data["kline"] = [none |-> FALSE, val |-> <<Candle>>]

----------------------------------------------------------------------------
(* C2, as claimed: in a cycle in which exactly one operation fails, all six
   series receive their record, no exception escapes the cycle, and every
   record of a series not derived from the failed operation is the record
   written when that operation succeeds too (whatever its payload). *)
C2_AsClaimed ==
    \A op \in Ops :
        (FailedOps = {op} /\ pc \in {"returned", "crashed"}) =>
            /\ pc = "returned"
            /\ \A s \in SeriesNames :
                  /\ Len(LinesOf(s, cycle)) = 1
                  /\ op \notin SourcesOf(s) =>
                        \A p \in Payloads(op) :
                            LinesOf(s, cycle)[1].data =
                                RecordOf(s, BundleWith(op, p), timestamp)

(* C2, amended: in a cycle in which exactly one operation fails, every
   record written for a series not derived from the failed operation is the
   record written when that operation succeeds too (whatever its payload);
   and when no append raises, all six series receive their record and no
   exception leaves the cycle. *)
C2_OneFailureIsolated ==
    \A op \in Ops :
        (FailedOps = {op} /\ BundleReady) =>
            /\ raised_in = "" => pc \notin {"crashed", "except"}
            /\ \A s \in SeriesNames :
                  /\ (pc \in {"returned", "summary"} /\ raised_in = "") =>
                        Len(LinesOf(s, cycle)) = 1
                  /\ op \notin SourcesOf(s) =>
                        \A i \in 1..Len(LinesOf(s, cycle)) :
                            \A p \in Payloads(op) :
                                LinesOf(s, cycle)[i].data =
                                    RecordOf(s, BundleWith(op, p), timestamp)

\* only the order book failed; the cycle is over and the volume record is
\* the ticker's
C2_Witness ==
    /\ pc = "returned"
    /\ FailedOps = {"orderbook"}
    /\ raw_data["ticker"] = [none |-> FALSE, val |-> TickerFull]
    /\ Len(store["volume_24h"]) = 1
    /\ store["volume_24h"][1].data.volume = TickerFull.volume
    /\ Len(store["spread"]) = 1

----------------------------------------------------------------------------
(* C3, as claimed: when the append of one record raises, the records of all
   the other series of that cycle are still appended. *)
C3_AsClaimed ==
    raised_in # "" =>
        (pc \in {"returned", "crashed"} =>
            \A s \in SeriesNames \ {raised_in} : Len(LinesOf(s, cycle)) = 1)

(* C3, amended: when the append of one record raises, nothing in
   _append_jsonl, _write_* or process_and_write catches it: the series
   written before it (in the order price, basisRate, openinterest,
   fundingRate, volume_24h, spread) keep their record of the cycle, the
   failing series and every later one receive none, and the exception
   leaves process_and_write (run_once raises; run_forever handles it in its
   except clause). *)
C3_AppendErrorAbortsCycle ==
    raised_in # "" =>
        /\ pc \in {"crashed", "except", "loop_top"}
        /\ \A s \in SeriesNames :
              Len(LinesOf(s, cycle)) =
                  IF SeriesIndex(s) < SeriesIndex(raised_in) THEN 1 ELSE 0

\* the append to openinterest.jsonl raised after two records were written
C3_Witness ==
    /\ raised_in = "openinterest"
    /\ pc = "crashed"
    /\ Len(store["price"]) = 1 /\ Len(store["basisRate"]) = 1
    /\ Len(store["spread"]) = 0

----------------------------------------------------------------------------
(* C5, as claimed: all six records of a cycle carry the timestamp captured
   once for that cycle. *)
C5_AsClaimed ==
    pc = "returned" =>
        \A s \in SeriesNames :
            \A i \in 1..Len(store[s]) : store[s][i].data.timestamp = timestamp

\* the first element of a history payload, when it carries its own timestamp
HasOwnTimestamp(op) ==
    /\ ~raw_data[op].none
    /\ Len(raw_data[op].val) > 0
    /\ "timestamp" \in raw_data[op].val[1].present

(* C5, amended: the price, fundingRate, volume_24h and spread records of a
   cycle carry the timestamp captured once for that cycle; the basisRate and
   openinterest records carry the timestamp field of the first element of
   their history when that element has one, and the cycle's timestamp
   otherwise. *)
C5_TimestampPerSeries ==
    BundleReady =>
        \A s \in SeriesNames :
            \A i \in 1..Len(LinesOf(s, cycle)) :
                LET ts == LinesOf(s, cycle)[i].data.timestamp
                    op == IF s = "basisRate" THEN "basis"
                          ELSE "open_interest_hist"
                IN  IF s \in {"basisRate", "openinterest"} /\ HasOwnTimestamp(op)
                    THEN ts = raw_data[op].val[1].timestamp
                    ELSE ts = timestamp

\* a finished cycle whose basisRate record carries the provider's timestamp
\* and whose openinterest record carries the cycle's
C5_Witness ==
    /\ pc = "returned"
    /\ HasOwnTimestamp("basis")
    /\ ~HasOwnTimestamp("open_interest_hist")
    /\ store["basisRate"][1].data.timestamp # timestamp
    /\ store["openinterest"][1].data.timestamp = timestamp
    /\ store["price"][1].data.timestamp = timestamp

----------------------------------------------------------------------------
(* Vocabulary of the run_forever properties *)

SomePending == \E op \in Ops : fetch[op].st = "pending"

IsPrefix(a, b) == Len(a) <= Len(b) /\ SubSeq(b, 1, Len(a)) = a

\* lines appended by this run (an earlier run's lines carry cycle 0)
RunLines(s) == SelectSeq(store[s], LAMBDA l : l.cycle >= 1)

\* series whose record is always stamped with the cycle's timestamp
CycleStamped == {"price", "fundingRate", "volume_24h", "spread"}

\* cycle c appended its record to every file
WroteAll(c) == \A s \in SeriesNames : Len(LinesOf(s, c)) = 1

\* the start_time of the cycle after the i-th finished one, once it began
NextStarted(i) == i < Len(log) \/ cycle > i

NextStart(i) == IF i < Len(log) THEN log[i + 1].start ELSE start_time

----------------------------------------------------------------------------
(* C4: in every cycle record building starts only after all seven requests
   have ended: while a request is pending nothing of the cycle is built or
   appended, and every record of the cycle is built from the one bundle of
   the seven outcomes. *)
C4_JoinBeforeBuild ==
    /\ SomePending =>
          /\ pc = "gather"
          /\ \A s \in SeriesNames : Len(LinesOf(s, cycle)) = 0
    /\ BundleReady =>
          \A op \in Ops : fetch[op].st \in {"returned", "raised"}
    /\ \A s \in SeriesNames :
          \A i \in 1..Len(LinesOf(s, cycle)) :
              LinesOf(s, cycle)[i].data =
                  RecordOf(s, fetch_all_data(fetch), timestamp)

\* the second iteration is writing its last record after one request failed
C4_Witness ==
    /\ cycle = 2
    /\ pc = "spread"
    /\ FailedOps = {"kline"}
    /\ Len(LinesOf("price", 2)) = 1
    /\ Len(LinesOf("volume_24h", 2)) = 1

----------------------------------------------------------------------------
(* C6, as claimed: with no failure, in every file the lines of this run are
   in cycle order and their timestamps strictly increase. *)
C6_AsClaimed ==
    faults = 0 =>
        \A s \in SeriesNames :
            \A i \in 1..(Len(RunLines(s)) - 1) :
                /\ RunLines(s)[i].cycle < RunLines(s)[i + 1].cycle
                /\ RunLines(s)[i].data.timestamp
                       < RunLines(s)[i + 1].data.timestamp

(* C6, amended: in every file the lines are in the order in which their
   cycles ran, and in price, fundingRate, volume_24h and spread the
   timestamps of consecutive lines of the run strictly increase; basisRate
   and openinterest lines carry the provider's timestamp when it has one,
   which need not increase from cycle to cycle. *)
C6_OrderAndCycleTimestamps ==
    \A s \in SeriesNames :
        /\ \A i \in 1..(Len(store[s]) - 1) :
              store[s][i].cycle < store[s][i + 1].cycle
        /\ s \in CycleStamped =>
              \A i \in 1..(Len(RunLines(s)) - 1) :
                  RunLines(s)[i].data.timestamp
                      < RunLines(s)[i + 1].data.timestamp

\* two cycles without any failure: price timestamps grew, basisRate's did not
C6_Witness ==
    /\ faults = 0
    /\ pc = "loop_top"
    /\ Len(RunLines("price")) = 2
    /\ RunLines("price")[1].data.timestamp < RunLines("price")[2].data.timestamp
    /\ Len(RunLines("basisRate")) = 2
    /\ RunLines("basisRate")[1].data.timestamp
           = RunLines("basisRate")[2].data.timestamp

----------------------------------------------------------------------------
(* C7: cycles of run_forever never overlap: requests are pending only for
   the one cycle in progress, and that cycle's requests are issued only when
   every earlier cycle has ended (its requests finished, its
   process_and_write over and its pause taken), so only the cycle in
   progress appends to the files. *)
C7_CyclesNeverOverlap ==
    /\ Len(log) \in {cycle - 1, cycle}
    /\ \A i \in 1..Len(log) : log[i].cycle = i
    /\ SomePending =>
          /\ pc = "gather"
          /\ Len(log) = cycle - 1
          /\ \A s \in SeriesNames : Len(LinesOf(s, cycle)) = 0
    /\ pc \in SeriesNames => Len(log) = cycle - 1 /\ ~SomePending
    /\ \A s \in SeriesNames :
          \A i \in 1..Len(store[s]) : store[s][i].cycle <= cycle

\* requests of the second cycle are in flight and the first cycle has ended
\* with all six appends made
C7_Witness ==
    /\ cycle = 2
    /\ SomePending
    /\ Len(log) = 1
    /\ WroteAll(1)

----------------------------------------------------------------------------
(* C8: files are only appended to, one line at a time; a cycle that completes
   has appended exactly one line to each of the six files; after n cycles
   that all completed every file holds its earlier content followed by
   exactly n lines. *)
C8_AppendOnly ==
    [][/\ \A s \in SeriesNames :
             /\ IsPrefix(store[s], store'[s])
             /\ Len(store'[s]) <= Len(store[s]) + 1
       /\ (pc = "spread" /\ pc' = "summary") =>
             \A s \in SeriesNames :
                 Len(SelectSeq(store'[s], LAMBDA l : l.cycle = cycle)) = 1
       /\ (log' # log /\ \A i \in 1..Len(log') : log'[i].outcome = "ok") =>
             \A s \in SeriesNames :
                 Len(store'[s]) = Len(LinesOf(s, 0)) + Len(log')
      ]_vars

\* two completed cycles on top of the lines an earlier run left
C8_Witness ==
    /\ pc = "loop_top"
    /\ Len(log) = 2
    /\ log[1].outcome = "ok" /\ log[2].outcome = "ok"
    /\ \A s \in SeriesNames :
          /\ Len(store[s]) = 3
          /\ store[s][1] = OldFiles[s][1]

----------------------------------------------------------------------------
(* C9: after a cycle that completes without error the loop sleeps
   max(0, interval_seconds - elapsed), elapsed counted from that cycle's
   start_time: the next cycle starts interval_seconds after this one's start
   when the cycle took at most interval_seconds, and right at its end when
   it took longer. *)
C9_Cadence ==
    \A i \in 1..Len(log) :
        log[i].outcome = "ok" =>
            LET took == log[i].end - log[i].start
            IN  /\ log[i].pause =
                       (IF took <= interval_seconds
                        THEN interval_seconds - took ELSE 0)
                /\ NextStarted(i) =>
                       NextStart(i) =
                           (IF took <= interval_seconds
                            THEN log[i].start + interval_seconds
                            ELSE log[i].end)

\* the first cycle overran the interval and the second began with no sleep
C9_Witness ==
    /\ cycle = 2
    /\ pc = "gather"
    /\ log[1].outcome = "ok"
    /\ log[1].end - log[1].start > interval_seconds
    /\ log[1].pause = 0
    /\ start_time = log[1].end

----------------------------------------------------------------------------
(* C10: an error raised inside an iteration of run_forever is caught by the
   loop's except clause: the loop does not end, it pauses BackoffSeconds and
   begins a fresh cycle; a cycle that wrote all its records is followed by
   the cadence sleep, never by the backoff. *)
C10_BackoffOnlyAfterError ==
    /\ pc # "crashed"
    /\ raised_in # "" <=> (pc = "except" \/ (pc = "loop_top" /\ cycle >= 1
                                               /\ ~WroteAll(cycle)))
    /\ \A i \in 1..Len(log) :
          /\ IF WroteAll(i)
             THEN /\ log[i].outcome = "ok"
                  /\ log[i].pause
                         = Max(0, interval_seconds - (log[i].end - log[i].start))
             ELSE /\ log[i].outcome = "error"
                  /\ log[i].pause = BackoffSeconds
          /\ NextStarted(i) => NextStart(i) = log[i].end + log[i].pause

\* the first cycle failed on an append; the second began 5 s later
C10_Witness ==
    /\ cycle = 2
    /\ pc = "gather"
    /\ log[1].outcome = "error"
    /\ ~WroteAll(1)
    /\ start_time = log[1].end + BackoffSeconds

----------------------------------------------------------------------------
(* Vocabulary of the calculate_orderbook_spread properties *)

\* s[1] + ... + s[n]
RECURSIVE SumSeq(_, _)
SumSeq(s, n) == IF n = 0 THEN 0 ELSE SumSeq(s, n - 1) + s[n]

\* total quantity offered on a side
TotalQty(levels) == SumSeq([k \in 1..Len(levels) |-> levels[k][2]], Len(levels))

\* the loop over the side has ended
SideOver(side) ==
    IF side = "bids" THEN calc.pc \in {"asks", "spread", "done"}
    ELSE calc.pc \in {"spread", "done"}

----------------------------------------------------------------------------
(* C11: on each side, for levels with non-negative quantities, at every step
   of the walk the cumulative filled quantity is the sum of the fills made
   and never exceeds the target size (nothing is filled for a target <= 0),
   each level's fill is min(level quantity, target - cumulative filled before
   it), and when the walk of the side is over the filled quantity is
   min(target, total quantity of the side) for a target > 0: the side's total
   depth when the target exceeds it. *)
C11_FillWithinTarget ==
    \A side \in Sides :
        LET levels == LevelsOf(side)
            fills == calc.fills[side]
            target == calc.target_quantity
            filled == calc.qty_sum[side]
        IN  /\ Len(fills) <= Len(levels)
            /\ filled = SumSeq(fills, Len(fills))
            /\ filled <= IF target > 0 THEN target ELSE 0
            /\ \A k \in 1..Len(fills) :
                  /\ fills[k] = IF levels[k][2] <= target - SumSeq(fills, k - 1)
                                THEN levels[k][2]
                                ELSE target - SumSeq(fills, k - 1)
                  /\ SumSeq(fills, k) <= target
            /\ (SideOver(side) /\ target > 0) =>
                  filled = IF target <= TotalQty(levels) THEN target
                           ELSE TotalQty(levels)
            /\ (SideOver(side) /\ target > TotalQty(levels)) =>
                  filled = TotalQty(levels)

\* the call has returned; the bids held less than the target and were taken
\* whole, the asks held more and their second level was filled in part
C11_Witness ==
    /\ calc.pc = "done"
    /\ calc.target_quantity = 3
    /\ TotalQty(LevelsOf("bids")) = 2
    /\ calc.qty_sum["bids"] = 2
    /\ calc.fills["bids"] = <<1, 1>>
    /\ calc.fills["asks"] = <<2, 1>>
    /\ calc.qty_sum["asks"] = 3

----------------------------------------------------------------------------
\* a <= b for fractions with positive denominators
FracLeq(a, b) == a.n * b.d <= b.n * a.d

\* levels of the side that received a fill
UsedLevels(side) == {k \in 1..Len(calc.fills[side]) : calc.fills[side][k] > 0}

(* C12: for a target size with 0 < target <= total quantity of a side, that
   side's weighted price is no lower than the lowest and no higher than the
   highest price among the levels that received a fill. *)
C12_WeightedPriceWithinUsedLevels ==
    \A side \in Sides :
        LET levels == LevelsOf(side)
            target == calc.target_quantity
            used == UsedLevels(side)
            avg == calc.avg_price[side]
        IN  (SideOver(side) /\ 0 < target /\ target <= TotalQty(levels)) =>
                /\ used # {}
                /\ \E lo \in used : FracLeq(DecimalOf(levels[lo][1]), avg)
                /\ \E hi \in used : FracLeq(avg, DecimalOf(levels[hi][1]))
                /\ (calc.pc = "done" /\ side = "bids") =>
                       calc.result.bid_price = avg
                /\ (calc.pc = "done" /\ side = "asks") =>
                       calc.result.ask_price = avg

\* three units taken from two bid levels: the weighted bid lies strictly
\* between the two prices
C12_Witness ==
    /\ calc.pc = "done"
    /\ calc.target_quantity = 3
    /\ calc.fills["bids"] = <<1, 2>>
    /\ Len(LevelsOf("bids")) = 2
    /\ calc.result.bid_price = Frac(298, 3)
    /\ LevelsOf("bids")[2][1] = 99 /\ LevelsOf("bids")[1][1] = 100

----------------------------------------------------------------------------
\* the side's weighted price is absent: nothing was filled on it
Absent(side) == calc.qty_sum[side] = 0

(* C13: the call returns spread = 0 and mid_price = 0 exactly when the
   weighted price of at least one side is absent; a side is absent when it is
   empty or the target size is <= 0 (then no level is filled, and no fill is
   ever negative); the price of each side is computed from that side alone,
   whatever the other side holds; and when both sides are present
   spread = weighted ask - weighted bid and
   mid_price = (weighted ask + weighted bid) / 2. *)
C13_ZeroWhenASideIsAbsent ==
    /\ \A side \in Sides :
          /\ \A k \in 1..Len(calc.fills[side]) : calc.fills[side][k] >= 0
          /\ calc.target_quantity <= 0 => calc.fills[side] = <<>>
          /\ (SideOver(side)
                /\ (LevelsOf(side) = <<>> \/ calc.target_quantity <= 0)) =>
                /\ Absent(side)
                /\ calc.avg_price[side] = DecimalOf(0)
    /\ calc.pc = "done" =>
          LET r == calc.result
              bid == IF Absent("bids") THEN DecimalOf(0)
                     ELSE Frac(calc.value_sum["bids"], calc.qty_sum["bids"])
              ask == IF Absent("asks") THEN DecimalOf(0)
                     ELSE Frac(calc.value_sum["asks"], calc.qty_sum["asks"])
          IN  /\ r.bid_price = bid
              /\ r.ask_price = ask
              /\ (r.spread = DecimalOf(0) /\ r.mid_price = DecimalOf(0))
                     <=> (Absent("bids") \/ Absent("asks"))
              /\ (~Absent("bids") /\ ~Absent("asks")) =>
                     /\ r.spread = FracSub(ask, bid)
                     /\ r.mid_price = Frac(ask.n * bid.d + bid.n * ask.d,
                                           2 * ask.d * bid.d)

\* no bids, asks two levels deep: the ask is priced, spread and mid are 0
C13_Witness ==
    /\ calc.pc = "done"
    /\ LevelsOf("bids") = <<>>
    /\ calc.fills["asks"] = <<1, 2>>
    /\ calc.result.ask_price = Frac(305, 3)
    /\ calc.result.bid_price = DecimalOf(0)
    /\ calc.result.spread = DecimalOf(0)
    /\ calc.result.mid_price = DecimalOf(0)

----------------------------------------------------------------------------
(* The reference walk of the specification, in closed form: level k, best
   first, is filled with what the target leaves after the levels before it,
   at most its quantity and never less than 0. *)
RefFill(levels, k, target) ==
    LET before == SumSeq([j \in 1..Len(levels) |-> levels[j][2]], k - 1)
        left == IF target - before > 0 THEN target - before ELSE 0
    IN  IF levels[k][2] <= left THEN levels[k][2] ELSE left

RefFilled(levels, target) ==
    SumSeq([k \in 1..Len(levels) |-> RefFill(levels, k, target)], Len(levels))

RefValue(levels, target) ==
    SumSeq([k \in 1..Len(levels) |-> RefFill(levels, k, target) * levels[k][1]],
           Len(levels))

\* cumulative value / cumulative filled, or zero when nothing was filled
RefPrice(levels, target) ==
    IF RefFilled(levels, target) > 0
    THEN Frac(RefValue(levels, target), RefFilled(levels, target))
    ELSE DecimalOf(0)

RefQuote(orderbook, target) ==
    LET bids == IF "bids" \in orderbook.present THEN orderbook.bids ELSE <<>>
        asks == IF "asks" \in orderbook.present THEN orderbook.asks ELSE <<>>
        bid == RefPrice(bids, target)
        ask == RefPrice(asks, target)
        both == RefFilled(bids, target) > 0 /\ RefFilled(asks, target) > 0
    IN  [bid_price |-> bid,
         ask_price |-> ask,
         spread |-> IF both THEN Frac(ask.n * bid.d - bid.n * ask.d,
                                      ask.d * bid.d)
                    ELSE DecimalOf(0),
         mid_price |-> IF both THEN Frac(ask.n * bid.d + bid.n * ask.d,
                                         2 * ask.d * bid.d)
                       ELSE DecimalOf(0)]

(* C14: for every order book and target size of the model the call returns
   the values of the reference walk, the loop run step by step and the
   function applied at once agree, and for bids [(100,1),(99,3)], asks
   [(101,2),(102,5)] and target 2 the result is bid 99.5, ask 101,
   spread 1.5, mid 100.25. *)
C14_MatchesReferenceWalk ==
    /\ calc.pc # "idle" =>
          calculate_orderbook_spread(calc.orderbook, calc.target_quantity)
              = RefQuote(calc.orderbook, calc.target_quantity)
    /\ calc.pc = "done" =>
          /\ calc.result = RefQuote(calc.orderbook, calc.target_quantity)
          /\ (calc.orderbook = BookFull /\ calc.target_quantity = target_oz) =>
                calc.result = [bid_price |-> Frac(199, 2),
                               ask_price |-> DecimalOf(101),
                               spread |-> Frac(3, 2),
                               mid_price |-> Frac(401, 4)]

\* the scenario book with target 2 has been priced
C14_Witness ==
    /\ calc.pc = "done"
    /\ calc.orderbook = BookFull
    /\ calc.target_quantity = 2
    /\ calc.fills = [bids |-> <<1, 1>>, asks |-> <<2>>]
    /\ calc.result.bid_price = Frac(199, 2)
    /\ calc.result.mid_price = Frac(401, 4)

----------------------------------------------------------------------------
(* C15: in a cycle where the order-book request fails while the kline and
   ticker requests succeed, the price record carries the close of the candle
   the kline request returned with mid_price 0, the spread record carries
   spread 0, and the volume_24h record carries the volume and quoteVolume of
   the ticker as the ticker gave them; with no append error each of the
   three records is written once. *)
C15_BookFailureLeavesPriceAndVolume ==
    (/\ BundleReady
     /\ fetch["orderbook"].st = "raised"
     /\ fetch["kline"].st = "returned"
     /\ fetch["ticker"].st = "returned") =>
        LET candles == fetch["kline"].val
            ticker == fetch["ticker"].val
        IN  /\ \A i \in 1..Len(LinesOf("price", cycle)) :
                  LET data == LinesOf("price", cycle)[i].data
                  IN  /\ data.mid_price = DecimalOf(0)
                      /\ candles = <<Candle>> => data.price = 2000
                      /\ candles \in {<<>>, <<ShortCandle>>} => data.price = 0
            /\ \A i \in 1..Len(LinesOf("spread", cycle)) :
                  LinesOf("spread", cycle)[i].data.spread = DecimalOf(0)
            /\ \A i \in 1..Len(LinesOf("volume_24h", cycle)) :
                  LET data == LinesOf("volume_24h", cycle)[i].data
                  IN  /\ "volume" \in ticker.present =>
                            data.volume = ticker.volume
                      /\ "quoteVolume" \in ticker.present =>
                            data.quoteVolume = ticker.quoteVolume
            /\ (pc = "returned" /\ raised_in = "") =>
                  \A s \in {"price", "spread", "volume_24h"} :
                      Len(LinesOf(s, cycle)) = 1

\* the order book failed, candle and ticker arrived, the cycle is over: close
\* 2000 with mid_price 0, spread 0, the ticker's volume
C15_Witness ==
    /\ pc = "returned"
    /\ fetch["orderbook"].st = "raised"
    /\ fetch["kline"] = Returned("kline", <<Candle>>)
    /\ fetch["ticker"] = Returned("ticker", TickerFull)
    /\ store["price"][1].data.price = 2000
    /\ store["price"][1].data.mid_price = DecimalOf(0)
    /\ store["spread"][1].data.spread = DecimalOf(0)
    /\ store["volume_24h"][1].data.quoteVolume = "2400100.0"

----------------------------------------------------------------------------
\* what the premium index gave as lastFundingRate, "" when it gave none
PremiumRate ==
    LET f == fetch["premium_index"]
    IN  IF f.st = "returned" /\ "lastFundingRate" \in f.val.present
        THEN f.val.lastFundingRate ELSE JStr("")

\* the funding-rate history received, empty when the request failed
History ==
    IF fetch["funding_rate"].st = "returned" THEN fetch["funding_rate"].val
    ELSE <<>>

\* the fundingRate of the first history entry, "" when it has none
HistoryRate ==
    IF "fundingRate" \in History[1].present THEN History[1].fundingRate
    ELSE JStr("")

(* C16, as claimed: the fundingRate field is the premium index's
   lastFundingRate whenever that is present and not the empty string; it is
   the first history entry's fundingRate exactly when lastFundingRate is the
   empty string or absent and the history is non-empty; otherwise it is the
   empty string.  No other value of lastFundingRate triggers the fallback. *)
C16_AsClaimed ==
    BundleReady =>
        \A i \in 1..Len(LinesOf("fundingRate", cycle)) :
            LinesOf("fundingRate", cycle)[i].data.fundingRate =
                IF PremiumRate # JStr("") THEN PremiumRate
                ELSE IF Len(History) > 0 THEN HistoryRate
                ELSE JStr("")

(* C16, amended: the fundingRate field is the premium index's
   lastFundingRate whenever that value is truthy; when lastFundingRate is
   absent or falsy (the empty string, but also null) and the history is
   non-empty it is the fundingRate of the first history entry, or the empty
   string when that entry has no such field; when the history is empty or
   its request failed it is lastFundingRate as received (null stays null),
   or the empty string when the premium index gave none. *)
C16_FallbackOnFalsyRate ==
    BundleReady =>
        \A i \in 1..Len(LinesOf("fundingRate", cycle)) :
            LET rate == LinesOf("fundingRate", cycle)[i].data.fundingRate
                falsy == PremiumRate \in {JStr(""), JNull}
            IN  /\ ~falsy => rate = PremiumRate
                /\ (falsy /\ Len(History) > 0) => rate = HistoryRate
                /\ (falsy /\ Len(History) = 0) => rate = PremiumRate

\* lastFundingRate was null and the history had an entry: the record carries
\* the history's rate
C16_Witness ==
    /\ pc = "returned"
    /\ fetch["premium_index"] = Returned("premium_index", PremiumNull)
    /\ fetch["funding_rate"] = Returned("funding_rate", <<FundingElem>>)
    /\ Len(store["fundingRate"]) = 1
    /\ store["fundingRate"][1].data.fundingRate = JStr("0.0002")

----------------------------------------------------------------------------
\* the series built from one history or from the ticker, and their operation
SingleSource ==
    [basisRate |-> "basis", openinterest |-> "open_interest_hist",
     volume_24h |-> "ticker"]

\* the payload-derived string fields of those records
DataFields ==
    [basisRate |-> {"indexPrice", "contractType", "basisRate", "futuresPrice",
                    "annualizedBasisRate", "basis"},
     openinterest |-> {"sumOpenInterest", "sumOpenInterestValue"},
     volume_24h |-> {"volume", "quoteVolume"}]

\* the operation's payload is absent: its request failed, or it is empty
PayloadAbsent(op) ==
    \/ fetch[op].st = "raised"
    \/ fetch[op].val = EmptyPayload(op)

\* the dict the fields are read from: the first element, or the ticker
Element(op) == IF op = "ticker" THEN fetch[op].val ELSE fetch[op].val[1]

\* what a field holds when the element lacks it
FieldDefault(f) == IF f = "contractType" THEN "PERPETUAL" ELSE ""

(* C17, as claimed: when the basis, open-interest-history or ticker payload
   is absent or empty, the record of its series is still appended with every
   data field set to the empty string and the cycle's timestamp. *)
C17_AsClaimed ==
    pc = "returned" =>
        \A s \in DOMAIN SingleSource :
            PayloadAbsent(SingleSource[s]) =>
                /\ Len(LinesOf(s, cycle)) = 1
                /\ LinesOf(s, cycle)[1].data.timestamp = timestamp
                /\ \A f \in DataFields[s] : LinesOf(s, cycle)[1].data[f] = ""

(* C17, amended: when the basis, open-interest-history or ticker payload is
   absent or empty, the record of its series is still appended (no append
   having raised) with the cycle's timestamp and every payload-derived field
   set to the empty string, except contractType, which is "PERPETUAL"; when
   the payload is present each field is the first element's (the ticker's)
   field, or that default when the element lacks it, the timestamp of a
   basisRate / openinterest record is the element's when it has one, and the
   record does not depend on any other operation's outcome. *)
C17_DefaultsAndOwnPayload ==
    BundleReady =>
        \A s \in DOMAIN SingleSource :
            LET op == SingleSource[s]
            IN  /\ (pc = "returned" /\ raised_in = "") =>
                       Len(LinesOf(s, cycle)) = 1
                /\ \A i \in 1..Len(LinesOf(s, cycle)) :
                      LET data == LinesOf(s, cycle)[i].data
                      IN  /\ \A f \in DataFields[s] :
                                data[f] =
                                    IF ~PayloadAbsent(op)
                                       /\ f \in Element(op).present
                                    THEN Element(op)[f] ELSE FieldDefault(f)
                          /\ data.timestamp =
                                IF op # "ticker" /\ ~PayloadAbsent(op)
                                   /\ "timestamp" \in Element(op).present
                                THEN Element(op).timestamp ELSE timestamp
                          /\ s = "basisRate" => data.pair = "PAXGUSDT"
                          /\ s # "basisRate" => data.symbol = "PAXGUSDT"
                          /\ \A o \in Ops \ {op} :
                                /\ data = RecordOf(s, [raw_data EXCEPT
                                              ![o] = NoneEntry(o)], timestamp)
                                /\ \A p \in Payloads(o) :
                                      data = RecordOf(s, BundleWith(o, p),
                                                      timestamp)

\* the basis request failed, the open-interest history came back empty and
\* the ticker arrived: blank basisRate record but for its contractType, blank
\* openinterest record, the ticker's volume
C17_Witness ==
    /\ pc = "returned"
    /\ fetch["basis"].st = "raised"
    /\ fetch["open_interest_hist"] = Returned("open_interest_hist", <<>>)
    /\ fetch["ticker"] = Returned("ticker", TickerFull)
    /\ store["basisRate"][1].data.contractType = "PERPETUAL"
    /\ store["basisRate"][1].data.indexPrice = ""
    /\ store["basisRate"][1].data.timestamp = timestamp
    /\ store["openinterest"][1].data.sumOpenInterest = ""
    /\ store["volume_24h"][1].data.volume = "1200.5"

----------------------------------------------------------------------------
(* C18: whatever the order in which the seven requests end and whichever of
   them fail, every request ends exactly once, the result the loop of
   fetch_all_data pairs with a key is the outcome of the operation of that
   name, and the bundle entry under the key is that outcome: None when that
   operation failed, its payload otherwise. *)
C18_EntryHoldsOwnOutcome ==
    /\ \A i, j \in 1..Len(order) : order[i] = order[j] => i = j
    /\ \A op \in Ops :
          (\E i \in 1..Len(order) : order[i] = op)
              <=> (pc # "run_once" /\ fetch[op].st \in {"returned", "raised"})
    /\ BundleReady =>
          \A key \in Ops :
              LET result == gather(fetch)[KeyIndex(key)]
              IN  /\ result.op = key
                  /\ raw_data[key] = ResultEntry(key, result)
                  /\ raw_data[key].none <=> fetch[key].st = "raised"
                  /\ ~raw_data[key].none => raw_data[key].val = fetch[key].val

\* the requests ended in the reverse of the order they were created in, the
\* kline request failing: the bundle still has the ticker under "ticker" and
\* None under "kline"
C18_Witness ==
    /\ pc = "process_and_write"
    /\ Len(order) = Len(TaskKeys)
    /\ \A i \in 1..Len(order) : order[i] = TaskKeys[Len(TaskKeys) + 1 - i]
    /\ FailedOps = {"kline"}
    /\ raw_data["ticker"] = [none |-> FALSE, val |-> TickerFull]
    /\ raw_data["premium_index"] = [none |-> FALSE, val |-> PremiumFull]
    /\ raw_data["kline"] = NoneEntry("kline")

----------------------------------------------------------------------------
\* the bundle of the cycle with the entry of op replaced by None
BundleWithout(op) == [raw_data EXCEPT ![op] = NoneEntry(op)]

(* C19: for each operation, the records written for a bundle whose entry for
   that operation is None are the records the builders give for the same
   bundle with that entry replaced by the empty payload of its type ({} for
   ticker, orderbook and premium_index, [] for kline, basis,
   open_interest_hist and funding_rate), and the records written for a bundle
   holding that empty payload are those the builders give with None in its
   place. *)
C19_NoneEqualsEmptyPayload ==
    BundleReady =>
        \A op \in Ops, s \in SeriesNames :
            \A i \in 1..Len(LinesOf(s, cycle)) :
                LET data == LinesOf(s, cycle)[i].data
                IN  /\ raw_data[op].none =>
                          data = RecordOf(s, BundleWith(op, EmptyPayload(op)),
                                          timestamp)
                    /\ raw_data[op] = [none |-> FALSE,
                                       val |-> EmptyPayload(op)] =>
                          data = RecordOf(s, BundleWithout(op), timestamp)

\* every request failed and all six records were written: they are the
\* records of seven empty payloads
C19_Witness ==
    /\ pc = "returned"
    /\ FailedOps = Ops
    /\ \A s \in SeriesNames :
          /\ Len(store[s]) = 1
          /\ store[s][1].data =
                 RecordOf(s, [op \in Ops |->
                                 [none |-> FALSE, val |-> EmptyPayload(op)]],
                          timestamp)

====
